---- MODULE Spec2Model ----
(***************************************************************************)
(* Model of the three completion-backed stages of the pipeline:            *)
(*   SkillsExtractor.extract_skills_from_jobs   (src/skills_extractor.py)  *)
(*   SyllabusMatcher.analyze_skill_gaps         (src/syllabus_matcher.py)  *)
(*   SyllabusMatcher.create_updated_syllabus    (src/syllabus_matcher.py)  *)
(*                                                                         *)
(* A reply of the completion service is a sequence of lexemes (tokens):    *)
(* braces, brackets, colon, comma, quoted strings, numbers, null, the      *)
(* blank SP, the newline NL, the three-backtick fence, the fence tag json  *)
(* and the prose word w.  str.strip, str.startswith, str.split, str.join,  *)
(* str.find, str.rfind, slicing and json.loads are modelled on that        *)
(* sequence as Python computes them on the characters.  A quoted string is *)
(* one lexeme, so no brace, fence or newline occurs inside a string.       *)
(*                                                                         *)
(* A Python value decoded from JSON is a record                            *)
(*   [t |-> type tag, n |-> int payload, s |-> str payload, items |-> seq] *)
(* where a dict's items are its <<key, value>> pairs in iteration order    *)
(* and a list's items are its elements.                                    *)
(***************************************************************************)
EXTENDS Integers, Sequences, FiniteSets, TLC

(***************************************************************************)
(* Bounds of the model.                                                    *)
(***************************************************************************)
\* largest frequency the service writes into a reply
MaxFreq == 1
\* largest number of skills the service writes into one category
MaxSkills == 2
\* longest reply made only of stray braces and prose words
MaxNoise == 3

(***************************************************************************)
(* Python values.                                                          *)
(***************************************************************************)
PyNone == [t |-> "null", n |-> 0, s |-> "", items |-> <<>>]
PyInt(i) == [t |-> "int", n |-> i, s |-> "", items |-> <<>>]
PyStr(x) == [t |-> "str", n |-> 0, s |-> x, items |-> <<>>]
PyList(xs) == [t |-> "list", n |-> 0, s |-> "", items |-> xs]
PyDict(kvs) == [t |-> "dict", n |-> 0, s |-> "", items |-> kvs]
KV(key, val) == [k |-> key, v |-> val]

IsDict(x) == x.t = "dict"

\* the keys of a dict, in iteration order
Keys(d) == [i \in 1..Len(d.items) |-> d.items[i].k]
KeySet(d) == {d.items[i].k : i \in 1..Len(d.items)}
\* d[key], for a key the dict holds
Get(d, key) == d.items[CHOOSE i \in 1..Len(d.items) : d.items[i].k = key].v

\* dict insertion as Python does it: a key already present keeps its
\* position and takes the new value, a new key goes last
Put(kvs, key, val) ==
    IF \E i \in 1..Len(kvs) : kvs[i].k = key
    THEN [i \in 1..Len(kvs) |-> IF kvs[i].k = key THEN KV(key, val) ELSE kvs[i]]
    ELSE Append(kvs, KV(key, val))

(***************************************************************************)
(* Lexemes of a reply.                                                     *)
(***************************************************************************)
SP == "SP"
NL == "NL"
FENCE == "FENCE"
Whitespace == {SP, NL}

Categories == <<"technical_skills", "soft_skills", "domain_knowledge", "tools_platforms">>
SkillNames == <<"Python", "SQL", "React">>

\* the quoted strings that occur in replies
StrToks == {Categories[i] : i \in 1..4} \cup {SkillNames[i] : i \in 1..3}
            \cup {"note", "many", "summary", "missing_skills", "skill",
                  "program_name", "modules", "name", "SE", "Web", "error",
                  "exception", "Failed to parse analysis", "title", "company",
                  "description", "Dev", "Acme", "PDF"}

Freqs == -1..MaxFreq
NumRange == -1..(MaxFreq + 1)
IsStrTok(tok) == tok \in StrToks
IsNumTok(tok) == \E i \in NumRange : ToString(i) = tok
NumVal(tok) == CHOOSE i \in NumRange : ToString(i) = tok

(***************************************************************************)
(* json.loads on a token sequence.                                         *)
(***************************************************************************)
Fail == [ok |-> FALSE, val |-> PyNone, pos |-> 0]
Ok(v, p) == [ok |-> TRUE, val |-> v, pos |-> p]

RECURSIVE SkipWs(_, _)
SkipWs(toks, i) ==
    IF i <= Len(toks) /\ toks[i] \in Whitespace THEN SkipWs(toks, i + 1) ELSE i

RECURSIVE ParseValue(_, _)
RECURSIVE ParseMembers(_, _, _)
RECURSIVE ParseElements(_, _, _)

\* one JSON value starting at or after position i; pos is the position
\* after its last token
ParseValue(toks, i) ==
    LET j == SkipWs(toks, i) IN
    IF j > Len(toks) THEN Fail
    ELSE IF toks[j] = "{" THEN
        LET m == SkipWs(toks, j + 1) IN
        IF m <= Len(toks) /\ toks[m] = "}" THEN Ok(PyDict(<<>>), m + 1)
        ELSE ParseMembers(toks, m, <<>>)
    ELSE IF toks[j] = "[" THEN
        LET m == SkipWs(toks, j + 1) IN
        IF m <= Len(toks) /\ toks[m] = "]" THEN Ok(PyList(<<>>), m + 1)
        ELSE ParseElements(toks, m, <<>>)
    ELSE IF toks[j] = "null" THEN Ok(PyNone, j + 1)
    ELSE IF IsStrTok(toks[j]) THEN Ok(PyStr(toks[j]), j + 1)
    ELSE IF IsNumTok(toks[j]) THEN Ok(PyInt(NumVal(toks[j])), j + 1)
    ELSE Fail

\* "key": value pairs up to the closing brace; acc holds the pairs so far
ParseMembers(toks, i, acc) ==
    LET j == SkipWs(toks, i) IN
    IF j > Len(toks) \/ ~IsStrTok(toks[j]) THEN Fail
    ELSE
        LET c == SkipWs(toks, j + 1) IN
        IF c > Len(toks) \/ toks[c] # ":" THEN Fail
        ELSE
            LET r == ParseValue(toks, c + 1) IN
            IF ~r.ok THEN Fail
            ELSE
                LET e == SkipWs(toks, r.pos)
                    acc2 == Put(acc, toks[j], r.val)
                IN  IF e > Len(toks) THEN Fail
                    ELSE IF toks[e] = "}" THEN Ok(PyDict(acc2), e + 1)
                    ELSE IF toks[e] = "," THEN ParseMembers(toks, e + 1, acc2)
                    ELSE Fail

\* list elements up to the closing bracket
ParseElements(toks, i, acc) ==
    LET r == ParseValue(toks, i) IN
    IF ~r.ok THEN Fail
    ELSE
        LET e == SkipWs(toks, r.pos)
            acc2 == Append(acc, r.val)
        IN  IF e > Len(toks) THEN Fail
            ELSE IF toks[e] = "]" THEN Ok(PyList(acc2), e + 1)
            ELSE IF toks[e] = "," THEN ParseElements(toks, e + 1, acc2)
            ELSE Fail

\* json.loads(text): ok = FALSE stands for json.JSONDecodeError
json_loads(text) ==
    LET r == ParseValue(text, 1) IN
    IF r.ok /\ SkipWs(text, r.pos) > Len(text) THEN [ok |-> TRUE, val |-> r.val]
    ELSE [ok |-> FALSE, val |-> PyNone]

(***************************************************************************)
(* Python string operations on a token sequence.                           *)
(***************************************************************************)
RECURSIVE lstrip(_)
lstrip(text) ==
    IF text # <<>> /\ Head(text) \in Whitespace THEN lstrip(Tail(text)) ELSE text

RECURSIVE rstrip(_)
rstrip(text) ==
    IF text # <<>> /\ text[Len(text)] \in Whitespace
    THEN rstrip(SubSeq(text, 1, Len(text) - 1)) ELSE text

\* str.strip()
strip(text) == rstrip(lstrip(text))

\* str.startswith("```")
startswith_fence(text) == text # <<>> /\ Head(text) = FENCE

\* str.split('\n'): the lines between the newlines, never an empty list
RECURSIVE split(_, _)
split(text, cur) ==
    IF text = <<>> THEN <<cur>>
    ELSE IF Head(text) = NL THEN <<cur>> \o split(Tail(text), <<>>)
    ELSE split(Tail(text), Append(cur, Head(text)))

\* '\n'.join(lines)
RECURSIVE join(_)
join(lines) ==
    IF lines = <<>> THEN <<>>
    ELSE IF Len(lines) = 1 THEN lines[1]
    ELSE lines[1] \o <<NL>> \o join(Tail(lines))

\* str.find(ch): 0-based index of the first occurrence, -1 when absent
find(text, ch) ==
    IF \E i \in 1..Len(text) : text[i] = ch
    THEN (CHOOSE i \in 1..Len(text) :
             text[i] = ch /\ \A j \in 1..(i - 1) : text[j] # ch) - 1
    ELSE -1

\* str.rfind(ch): 0-based index of the last occurrence, -1 when absent
rfind(text, ch) ==
    IF \E i \in 1..Len(text) : text[i] = ch
    THEN (CHOOSE i \in 1..Len(text) :
             text[i] = ch /\ \A j \in (i + 1)..Len(text) : text[j] # ch) - 1
    ELSE -1

\* text[start:end] for 0 <= start and 0 <= end <= len(text)
slice(text, start, end) == SubSeq(text, start + 1, end)

(***************************************************************************)
(* sorted(d.items(), key=lambda x: x[1], reverse=True)                     *)
(***************************************************************************)
\* the order of Python's < on two str values that occur as frequencies
StrRank(x) == IF x = "many" THEN 1 ELSE 0

\* a < b is defined for two ints and for two strs; for None, dict and mixed
\* operands it raises TypeError (replies of the model carry no list-valued
\* frequency)
Comparable(a, b) == (a.t = "int" /\ b.t = "int") \/ (a.t = "str" /\ b.t = "str")
Less(a, b) == IF a.t = "int" THEN a.n < b.n ELSE StrRank(a.s) < StrRank(b.s)

\* sorted raises TypeError as soon as two keys cannot be compared; one
\* item alone is never compared
Sortable(kvs) ==
    \A i, j \in 1..Len(kvs) : i < j => Comparable(kvs[i].v, kvs[j].v)

\* variant: ascending order (reverse=True left out)
InsertAsc(acc, x) ==
    LET before == {i \in 1..Len(acc) : ~Less(x.v, acc[i].v)}
        n == Cardinality(before)
    IN  SubSeq(acc, 1, n) \o <<x>> \o SubSeq(acc, n + 1, Len(acc))

\* variant: descending order with x placed in front of the items equal to
\* it (an ascending sort reversed afterwards)
InsertDesc_TiesFirst(acc, x) ==
    LET before == {i \in 1..Len(acc) : Less(x.v, acc[i].v)}
        n == Cardinality(before)
    IN  SubSeq(acc, 1, n) \o <<x>> \o SubSeq(acc, n + 1, Len(acc))

\* variant: an item whose value acc already holds is left out (the items
\* are keyed by their value while they are sorted)
InsertDesc_DropTies(acc, x) ==
    LET before == {i \in 1..Len(acc) : ~Less(acc[i].v, x.v)}
        n == Cardinality(before)
    IN  IF \E i \in 1..Len(acc) : acc[i].v = x.v THEN acc
        ELSE SubSeq(acc, 1, n) \o <<x>> \o SubSeq(acc, n + 1, Len(acc))

\* x placed behind every item of acc whose value is >= its own: acc is in
\* descending order and equal values keep their order of arrival
InsertDesc(acc, x) ==
    LET before == {i \in 1..Len(acc) : ~Less(acc[i].v, x.v)}
        n == Cardinality(before)
    IN  SubSeq(acc, 1, n) \o <<x>> \o SubSeq(acc, n + 1, Len(acc))

RECURSIVE SortFrom(_, _)
SortFrom(kvs, acc) ==
    IF kvs = <<>> THEN acc ELSE SortFrom(Tail(kvs), InsertDesc(acc, Head(kvs)))

\* the items of a category ordered by descending value, ties in input order
sorted_reverse(kvs) == SortFrom(kvs, <<>>)

(***************************************************************************)
(* SkillsExtractor.extract_skills_from_jobs, from the reply on.            *)
(***************************************************************************)
\* variant: the fallback of extract_skills_from_job, categories as lists
EmptySkills_Lists ==
    PyDict([i \in 1..4 |-> KV(Categories[i], PyList(<<>>))])

\* the fallback of the except clause
EmptySkills ==
    PyDict([i \in 1..4 |-> KV(Categories[i], PyDict(<<>>))])

\* variant: only a bare fence line is taken for an opening fence
cleaned_result_BareFenceOnly(result) ==
    LET c == strip(result) IN
    IF startswith_fence(c) THEN
        LET lines0 == split(c, <<>>)
            lines1 == IF lines0[1] = <<FENCE>> THEN Tail(lines0) ELSE lines0
            lines2 == IF lines1 # <<>> /\ strip(lines1[Len(lines1)]) = <<FENCE>>
                      THEN SubSeq(lines1, 1, Len(lines1) - 1) ELSE lines1
        IN  join(lines2)
    ELSE c

\* lines 197-204: strip the reply and drop the lines of a code fence
cleaned_result(result) ==
    LET c == strip(result) IN
    IF startswith_fence(c) THEN
        LET lines0 == split(c, <<>>)
            lines1 == IF startswith_fence(lines0[1]) THEN Tail(lines0) ELSE lines0
            lines2 == IF lines1 # <<>> /\ strip(lines1[Len(lines1)]) = <<FENCE>>
                      THEN SubSeq(lines1, 1, Len(lines1) - 1) ELSE lines1
        IN  join(lines2)
    ELSE c

\* lines 209-216: whether the loop over the categories and the count of the
\* skills run without an exception.  Only a dict whose values are all dicts
\* with mutually comparable values gets through: iterating None or an int,
\* indexing a str or a list by its own element, .items() of a value that is
\* not a dict and .values() of an empty list or str all raise.
SortRaises(aggregated_skills) ==
    \/ ~IsDict(aggregated_skills)
    \/ \E i \in 1..Len(aggregated_skills.items) :
          \/ ~IsDict(aggregated_skills.items[i].v)
          \/ ~Sortable(aggregated_skills.items[i].v.items)

\* lines 209-214: every category re-built in descending order of frequency
SortCategories(aggregated_skills) ==
    PyDict([i \in 1..Len(aggregated_skills.items) |->
              KV(aggregated_skills.items[i].k,
                 PyDict(sorted_reverse(aggregated_skills.items[i].v.items)))])

\* the categories in front of the first one the loop fails on
SortedPrefix(aggregated_skills) ==
    LET bad == {i \in 1..Len(aggregated_skills.items) :
                   \/ ~IsDict(aggregated_skills.items[i].v)
                   \/ ~Sortable(aggregated_skills.items[i].v.items)}
        n == IF bad = {} THEN Len(aggregated_skills.items)
             ELSE (CHOOSE i \in bad : \A j \in bad : i <= j) - 1
    IN  SubSeq(SortCategories(PyDict(SubSeq(aggregated_skills.items, 1, n))).items, 1, n)

RECURSIVE PutAll(_, _)
PutAll(kvs, more) ==
    IF more = <<>> THEN kvs
    ELSE PutAll(Put(kvs, Head(more).k, Head(more).v), Tail(more))

\* variant: the fallback keeps the categories sorted before the failure
ExtractReturn_KeepProcessed(resp) ==
    IF resp.kind # "content" THEN EmptySkills
    ELSE
        LET parsed == json_loads(cleaned_result(resp.content)) IN
        IF ~parsed.ok THEN EmptySkills
        ELSE IF ~IsDict(parsed.val) THEN EmptySkills
        ELSE IF SortRaises(parsed.val)
             THEN PyDict(PutAll(EmptySkills.items, SortedPrefix(parsed.val)))
        ELSE SortCategories(parsed.val)

\* variant: the decoded reply is returned as it is, the sorting loop and
\* the count of the skills are left out
ExtractReturn_NoSort(resp) ==
    IF resp.kind # "content" THEN EmptySkills
    ELSE
        LET parsed == json_loads(cleaned_result(resp.content)) IN
        IF ~parsed.ok THEN EmptySkills ELSE parsed.val

\* the value extract_skills_from_jobs returns for an outcome of the
\* completion call; every exception ends in the fallback
ExtractReturn(resp) ==
    IF resp.kind # "content" THEN EmptySkills
    ELSE
        LET parsed == json_loads(cleaned_result(resp.content)) IN
        IF ~parsed.ok THEN EmptySkills
        ELSE IF SortRaises(parsed.val) THEN EmptySkills
        ELSE SortCategories(parsed.val)

(***************************************************************************)
(* SyllabusMatcher.analyze_skill_gaps and create_updated_syllabus.         *)
(***************************************************************************)
\* variant: the brace span is tried alone, without the direct parse
Decode_SpanOnly(resp) ==
    IF resp.kind = "none" THEN [how |-> "raise", val |-> PyNone]
    ELSE
        LET result == resp.content
            start == find(result, "{")
            end == rfind(result, "}") + 1
        IN  IF start # -1 /\ end # 0 THEN
                LET span == json_loads(slice(result, start, end)) IN
                IF span.ok THEN [how |-> "value", val |-> span.val]
                ELSE [how |-> "raise", val |-> PyNone]
            ELSE [how |-> "else", val |-> PyNone]

\* variant: the span ends at the first closing brace (find for rfind)
Decode_FirstClosingBrace(resp) ==
    IF resp.kind = "none" THEN [how |-> "raise", val |-> PyNone]
    ELSE
        LET result == resp.content
            direct == json_loads(result)
            start == find(result, "{")
            end == find(result, "}") + 1
        IN  IF direct.ok THEN [how |-> "value", val |-> direct.val]
            ELSE IF start # -1 /\ end # 0 THEN
                LET span == json_loads(slice(result, start, end)) IN
                IF span.ok THEN [how |-> "value", val |-> span.val]
                ELSE [how |-> "raise", val |-> PyNone]
            ELSE [how |-> "else", val |-> PyNone]

\* lines 146-155 and 239-248: direct parse, then the span from the first
\* opening brace to the last closing brace.  how = "value" with the decoded
\* value, "else" when the else branch is taken, "raise" when json.loads of
\* the span (or of a reply that is None) raises out of the inner handler.
Decode(resp) ==
    IF resp.kind = "none" THEN [how |-> "raise", val |-> PyNone]
    ELSE
        LET result == resp.content
            direct == json_loads(result)
            start == find(result, "{")
            end == rfind(result, "}") + 1
        IN  IF direct.ok THEN [how |-> "value", val |-> direct.val]
            ELSE IF start # -1 /\ end # 0 THEN
                LET span == json_loads(slice(result, start, end)) IN
                IF span.ok THEN [how |-> "value", val |-> span.val]
                ELSE [how |-> "raise", val |-> PyNone]
            ELSE [how |-> "else", val |-> PyNone]

\* variant: the call is issued again when it raised
CompletionCalls_RetryOnRaise(resp) == IF resp.kind = "raise" THEN 2 ELSE 1

\* the calls of client.chat.completions.create one invocation issues once
\* its prompt is built: the single call site stands in no loop and neither
\* except clause calls again, whatever the outcome
CompletionCalls(resp) == IF resp.kind \in {"raise", "none", "content"} THEN 1 ELSE 0

\* {"error": str(e)} and {"error": "Failed to parse analysis"}
ErrorReport(msg) == PyDict(<<KV("error", PyStr(msg))>>)

\* lines 86-89: the rendering of the taxonomy, outside the try block, calls
\* .items() on the taxonomy and on every category
RenderRaises(industry_skills) ==
    \/ ~IsDict(industry_skills)
    \/ \E i \in 1..Len(industry_skills.items) : ~IsDict(industry_skills.items[i].v)

\* the value analyze_skill_gaps returns once the prompt is built
AnalyzeReturn(resp) ==
    IF resp.kind = "raise" THEN ErrorReport("exception")
    ELSE
        LET d == Decode(resp) IN
        IF d.how = "value" THEN d.val
        ELSE IF d.how = "else" THEN ErrorReport("Failed to parse analysis")
        ELSE ErrorReport("exception")

\* variant: an empty structure when the completion call raises
SynthReturn_EmptyOnRaise(syllabus, resp) ==
    IF resp.kind = "raise" THEN PyDict(<<>>)
    ELSE
        LET d == Decode(resp) IN
        IF d.how = "value" THEN d.val ELSE syllabus

\* variant: the error report of analyze_skill_gaps when the reply cannot
\* be decoded
SynthReturn_ErrorOnUndecodable(syllabus, resp) ==
    IF resp.kind = "raise" THEN syllabus
    ELSE
        LET d == Decode(resp) IN
        IF d.how = "value" THEN d.val ELSE ErrorReport("Failed to parse analysis")

\* the value create_updated_syllabus returns
SynthReturn(syllabus, resp) ==
    IF resp.kind = "raise" THEN syllabus
    ELSE
        LET d == Decode(resp) IN
        IF d.how = "value" THEN d.val ELSE syllabus

(***************************************************************************)
(* The replies of the completion service.                                  *)
(***************************************************************************)
RECURSIVE Text(_)
RECURSIVE TextItems(_, _)
\* the JSON text of a value, as the service writes it
Text(v) ==
    IF v.t = "int" THEN <<ToString(v.n)>>
    ELSE IF v.t = "str" THEN <<v.s>>
    ELSE IF v.t = "null" THEN <<"null">>
    ELSE IF v.t = "list" THEN <<"[">> \o TextItems(v.items, FALSE) \o <<"]">>
    ELSE <<"{">> \o TextItems(v.items, TRUE) \o <<"}">>

TextItems(xs, isDict) ==
    IF xs = <<>> THEN <<>>
    ELSE (IF isDict THEN <<Head(xs).k, ":", SP>> \o Text(Head(xs).v)
                    ELSE Text(Head(xs)))
         \o (IF Len(xs) > 1 THEN <<",", SP>> ELSE <<>>)
         \o TextItems(Tail(xs), isDict)

\* the values the service writes as a frequency
FreqVals == {PyInt(f) : f \in Freqs} \cup {PyStr("many"), PyNone}

SkillName(i) == IF i <= Len(SkillNames) THEN SkillNames[i] ELSE "note"

\* the categories the service writes: up to MaxSkills skills, in any order
\* of frequency
CategoryVals ==
    UNION {{PyDict([i \in 1..n |-> KV(SkillName(i), f[i])]) : f \in [1..n -> FreqVals]}
           : n \in 0..MaxSkills}

\* what the service writes for the last category
LastVals ==
    {PyDict(<<>>),
     PyDict(<<KV("Python", PyInt(0)), KV("SQL", PyInt(1))>>),
     PyStr("many")}

FullTaxonomy(a, b) ==
    <<KV(Categories[1], a), KV(Categories[2], PyDict(<<>>)),
      KV(Categories[3], PyDict(<<>>)), KV(Categories[4], b)>>

\* taxonomy-shaped objects: all four categories, the first category alone,
\* the four categories with one more key, and the empty object
TaxonomyVals ==
    {PyDict(FullTaxonomy(a, b)) : a \in CategoryVals, b \in LastVals}
    \cup {PyDict(<<KV(Categories[1], a)>>) : a \in CategoryVals}
    \cup {PyDict(Append(FullTaxonomy(a, PyDict(<<>>)), KV("note", x)))
            : a \in CategoryVals, x \in {PyStr("many"), PyDict(<<>>)}}
    \cup {PyDict(<<>>)}

\* a gap report and a revised curriculum as the service writes them
GapVals ==
    {PyDict(<<KV("missing_skills",
                 PyList(<<PyDict(<<KV("skill", PyStr("React"))>>)>>)),
              KV("summary", PyStr("many"))>>),
     PyDict(<<KV("summary", PyStr("many"))>>)}

SyllabusVals ==
    {PyDict(<<KV("program_name", PyStr("SE")),
              KV("modules", PyList(<<PyDict(<<KV("name", PyStr("Web"))>>)>>))>>),
     PyDict(<<KV("program_name", PyStr("SE")), KV("modules", PyList(<<>>))>>)}

\* well-formed JSON that is not an object
ScalarVals == {PyNone, PyStr("many"), PyInt(1), PyList(<<>>), PyList(<<PyInt(1)>>)}

\* every sequence of at most MaxNoise stray braces and prose words
NoiseTexts == UNION {[1..n -> {"{", "}", "w"}] : n \in 0..MaxNoise}

\* an object cut off after its first key
CutTexts == {<<"{", "summary", ":">>, <<"{", "summary", ":", SP, "many">>}

Bodies ==
    {Text(v) : v \in TaxonomyVals \cup GapVals \cup SyllabusVals \cup ScalarVals}
    \cup NoiseTexts \cup CutTexts

\* what surrounds the body: <<text before, text after>>
Wrappers ==
    {<< <<>>, <<>> >>,
     << <<SP>>, <<NL>> >>,
     << <<FENCE, "json", NL>>, <<NL, FENCE>> >>,
     << <<FENCE, NL>>, <<NL, FENCE>> >>,
     << <<NL, FENCE, "json", NL>>, <<NL, FENCE, SP, NL>> >>,
     << <<FENCE, "json", NL>>, <<>> >>,
     << <<FENCE, NL>>, <<NL, FENCE, NL, "w">> >>,
     << <<"w", SP>>, <<>> >>,
     << <<>>, <<SP, "w">> >>,
     << <<"w", NL>>, <<NL, "w">> >>,
     << <<"}", SP>>, <<>> >>,
     << <<>>, <<SP, "{">> >>}

Replies == {w[1] \o b \o w[2] : w \in Wrappers, b \in Bodies}

\* the outcomes of client.chat.completions.create followed by
\* response.choices[0].message.content: the call raises (timeouts
\* included), the content is None, or the content is a text
Responses ==
    {[kind |-> "raise", content |-> <<>>], [kind |-> "none", content |-> <<>>]}
    \cup {[kind |-> "content", content |-> r] : r \in Replies}

(***************************************************************************)
(* The arguments of the stages.                                            *)
(***************************************************************************)
\* create_default_syllabus, cut to one module, and an empty syllabus
InputSyllabi ==
    {PyDict(<<KV("program_name", PyStr("SE")), KV("modules", PyList(<<>>))>>),
     PyDict(<<>>)}

\* taxonomies handed to analyze_skill_gaps: the fallback of the extractor,
\* a sorted taxonomy, the {} of load_skills, and a document whose category
\* is not a mapping
InputSkills ==
    {EmptySkills,
     PyDict(FullTaxonomy(PyDict(<<KV("Python", PyInt(1))>>), PyDict(<<>>))),
     PyDict(<<>>),
     PyDict(<<KV(Categories[1], PyStr("many"))>>)}

\* gap reports handed to create_updated_syllabus
InputReports ==
    {ErrorReport("exception"), PyDict(<<KV("summary", PyStr("many"))>>)}

(***************************************************************************)
(* The prompts of the three stages.                                        *)
(***************************************************************************)
\* the leading blanks of a line nested n deep under indent=2
Indent(n) == [i \in 1..(2 * n) |-> SP]

RECURSIVE json_dump(_, _)
RECURSIVE DumpItems(_, _, _)
\* json.dump(v, f, indent=2, ensure_ascii=False): one member per line, a
\* container closed on a line of its own, an empty container on one line
json_dump(v, level) ==
    IF v.t = "int" THEN <<ToString(v.n)>>
    ELSE IF v.t = "str" THEN <<v.s>>
    ELSE IF v.t = "null" THEN <<"null">>
    ELSE IF v.items = <<>> THEN (IF v.t = "list" THEN <<"[", "]">> ELSE <<"{", "}">>)
    ELSE <<(IF v.t = "list" THEN "[" ELSE "{"), NL>>
         \o DumpItems(v.items, v.t = "dict", level + 1)
         \o <<NL>> \o Indent(level)
         \o <<(IF v.t = "list" THEN "]" ELSE "}")>>

DumpItems(xs, isDict, level) ==
    IF xs = <<>> THEN <<>>
    ELSE Indent(level)
         \o (IF isDict THEN <<Head(xs).k, ":", SP>> \o json_dump(Head(xs).v, level)
                       ELSE json_dump(Head(xs), level))
         \o (IF Len(xs) > 1 THEN <<",", NL>> ELSE <<>>)
         \o DumpItems(Tail(xs), isDict, level)

\* jobs[:20], the [:200] of a description and the [:15] of a category
MaxPromptJobs == 20

ExcerptChars == 200

TopSkills == 15

Min(a, b) == IF a < b THEN a ELSE b

\* a text of len characters: the first len characters of the text called
\* name, so that two such values with one name are prefixes of one another.
\* (PyStr is for the short fixed texts, whose length no slice here changes.)
PyText(name, len) == [t |-> "str", n |-> len, s |-> name, items |-> <<>>]

\* text[:k]
str_prefix(text, k) == [text EXCEPT !.n = Min(@, k)]

\* d.get(key, default)
dict_get(d, key, default) == IF key \in KeySet(d) THEN Get(d, key) ELSE default

\* a variant of jobs_head: every posting goes into the prompt
jobs_head_All(js) == js

\* jobs[:20]
jobs_head(js) == SubSeq(js, 1, Min(Len(js), MaxPromptJobs))

\* a variant of job_summary: the description goes in whole
job_summary_WholeDescription(idx, job) ==
    [idx |-> idx,
     title |-> dict_get(job, "title", PyStr("Unknown")),
     company |-> dict_get(job, "company", PyStr("Unknown")),
     description |-> dict_get(job, "description", PyText("", 0))]

\* the line of one posting: "{idx}. {title} at {company}: {description[:200]}"
job_summary(idx, job) ==
    [idx |-> idx,
     title |-> dict_get(job, "title", PyStr("Unknown")),
     company |-> dict_get(job, "company", PyStr("Unknown")),
     description |-> str_prefix(dict_get(job, "description", PyText("", 0)),
                                ExcerptChars)]

\* lines 147-153: the prompt of extract_skills_from_jobs names the number of
\* lines and holds the lines of enumerate(jobs[:20], 1), joined
ExtractPrompt(js) ==
    LET head == jobs_head(js.items)
        jobs_summary == [k \in 1..Len(head) |-> job_summary(k, head[k])]
    IN  [count |-> Len(jobs_summary), batch_text |-> jobs_summary]

\* a variant of category_head: every entry of the category is listed
category_head_All(kvs) == kvs

\* list(skills.items())[:15]
category_head(kvs) == SubSeq(kvs, 1, Min(Len(kvs), TopSkills))

\* lines 81-89: the syllabus as json.dumps writes it and, for every
\* category in turn, its first 15 entries with their counts
GapPrompt(syllabus, skills) ==
    [syllabus_text |-> json_dump(syllabus, 0),
     skills_text |-> [i \in 1..Len(skills.items) |->
                        [category |-> skills.items[i].k,
                         lines |-> category_head(skills.items[i].v.items)]]]

\* lines 174-175: the syllabus and the gap report as json.dumps writes them
SynthPrompt(syllabus, report) ==
    [syllabus_text |-> json_dump(syllabus, 0),
     analysis_text |-> json_dump(report, 0)]

\* no prompt is built
NoPrompt == [count |-> 0, batch_text |-> <<>>]

\* posting lists handed to extract_skills_from_jobs
Job(title, company) ==
    PyDict(<<KV("title", PyStr(title)), KV("company", PyStr(company)),
             KV("description", PyStr("many"))>>)

InputJobs ==
    {PyList(<<Job("Dev", "Acme")>>),
     PyList(<<Job("Dev", "Acme"), Job("Web", "Acme")>>)}

NotPassed == PyNone

\* the arguments of an invocation, as the caller passed them
NoArgs ==
    [jobs |-> NotPassed, current_syllabus |-> NotPassed,
     industry_skills |-> NotPassed, gap_analysis |-> NotPassed]

\* the posting list after extract_skills_from_jobs: the function reads
\* jobs[:20] and job.get(...) and assigns to no part of it
jobs_after_extract(js, resp) == js

\* the arguments after analyze_skill_gaps: both are only rendered into the
\* prompt with json.dumps
args_after_analyze(syllabus, skills, resp) ==
    [current_syllabus |-> syllabus, industry_skills |-> skills]

\* a variant of args_after_synth: the decoded object is merged into the
\* curriculum passed in (current_syllabus.update(updated_syllabus))
args_after_synth_MergedInPlace(syllabus, report, resp) ==
    [current_syllabus |->
        IF resp.kind = "content" /\ Decode(resp).how = "value"
           /\ IsDict(Decode(resp).val)
        THEN PyDict(PutAll(syllabus.items, Decode(resp).val.items))
        ELSE syllabus,
     gap_analysis |-> report]

\* the arguments after create_updated_syllabus: both are only rendered
\* into the prompt; the fallback returns the curriculum object itself
args_after_synth(syllabus, report, resp) ==
    [current_syllabus |-> syllabus, gap_analysis |-> report]

NoResponse == [kind |-> "notcalled", content |-> <<>>]

(***************************************************************************)
(* State: the last stage invoked, its arguments, the outcome of its        *)
(* completion call, and what it returned or raised.                        *)
(***************************************************************************)
VARIABLES
    stage,             \* "idle", or the name of the stage that has run
    current_syllabus,  \* argument current_syllabus, after the call
    industry_skills,   \* argument industry_skills, after the call
    gap_analysis,      \* argument gap_analysis, after the call
    response,          \* outcome of the completion call
    calls,             \* completion calls issued by the invocation
    returned,          \* the value returned to the caller
    raised,            \* TRUE when an exception reached the caller
    jobs,              \* argument jobs, after the call
    passed,            \* the arguments as the caller passed them
    prompt             \* the prompt the stage has built

stageVars == <<stage, current_syllabus, industry_skills, gap_analysis, response,
               calls, returned, raised, jobs, passed, prompt>>

(***************************************************************************)
(* State of the artifact files, of the command-line run and of the UI      *)
(* session.                                                                *)
(***************************************************************************)
VARIABLES
    files,    \* file name -> [exists, text]: the JSON files on disk
    saved,    \* file name -> [ever, val]: the value last passed to a save
    loaded,   \* the last save_skills / load_skills call and its outcome
    mode,     \* "cli" for main(), "ui" for the Streamlit session
    pc,       \* position in main(), or in the handler of the session
    env,      \* TRUE when GROQ_API_KEY is set
    session,  \* st.session_state
    main,     \* the locals of main()
    hist      \* built: the taxonomy extract_skills_from_jobs returned last

storeVars == <<files, saved, loaded>>
runVars == <<mode, pc, env, session, main, hist>>

vars == <<stageVars, storeVars, runVars>>

NoFile == [exists |-> FALSE, text |-> <<>>]
NeverSaved == [ever |-> FALSE, val |-> PyNone]
NoStoreCall == [op |-> "none", name |-> "", val |-> PyNone, raised |-> FALSE]
\* a local that is not assigned yet, a key that is not in the session
Unbound == [t |-> "unbound", n |-> 0, s |-> "", items |-> <<>>]

NoSession ==
    [jobs |-> Unbound, skills |-> Unbound, gap_analysis |-> Unbound,
     updated_syllabus |-> Unbound, current_syllabus |-> Unbound,
     pdf_uploaded |-> FALSE]

NoMain ==
    [jobs |-> Unbound, aggregated_skills |-> Unbound, current_syllabus |-> Unbound,
     gap_analysis |-> Unbound, updated_syllabus |-> Unbound]

\* extract_skills_from_jobs has not returned yet
NoHist == [built |-> Unbound]

\* no file, no store call
StoreOff ==
    /\ files = <<>>
    /\ saved = <<>>
    /\ loaded = NoStoreCall

\* neither main() nor the session runs
RunOff ==
    /\ mode = "none"
    /\ pc = "off"
    /\ env = FALSE
    /\ session = NoSession
    /\ main = NoMain
    /\ hist = NoHist

\* no stage has been invoked
StageIdle ==
    /\ stage = "idle"
    /\ current_syllabus = NotPassed
    /\ industry_skills = NotPassed
    /\ gap_analysis = NotPassed
    /\ response = NoResponse
    /\ calls = 0
    /\ returned = PyNone
    /\ raised = FALSE
    /\ jobs = NotPassed
    /\ passed = NoArgs
    /\ prompt = NoPrompt

Init ==
    /\ stage = "idle"
    /\ current_syllabus = NotPassed
    /\ industry_skills = NotPassed
    /\ gap_analysis = NotPassed
    /\ response = NoResponse
    /\ calls = 0
    /\ returned = PyNone
    /\ raised = FALSE
    /\ jobs = NotPassed
    /\ passed = NoArgs
    /\ prompt = NoPrompt
    /\ StoreOff
    /\ RunOff

extract_skills_from_jobs ==
    /\ stage = "idle"
    /\ \E js \in InputJobs, resp \in Responses :
        /\ passed' = [NoArgs EXCEPT !.jobs = js]
        /\ jobs' = jobs_after_extract(js, resp)
        /\ response' = resp
        /\ returned' = ExtractReturn(resp)
        /\ prompt' = ExtractPrompt(js)
        /\ calls' = CompletionCalls(resp)
    /\ stage' = "extract_skills_from_jobs"
    /\ raised' = FALSE
    /\ UNCHANGED <<current_syllabus, industry_skills, gap_analysis>>
    /\ UNCHANGED <<storeVars, runVars>>

analyze_skill_gaps ==
    /\ stage = "idle"
    /\ \E syllabus \in InputSyllabi, skills \in InputSkills :
        /\ passed' = [NoArgs EXCEPT !.current_syllabus = syllabus,
                                     !.industry_skills = skills]
        /\ IF RenderRaises(skills)
           THEN /\ raised' = TRUE
                /\ calls' = 0
                /\ response' = NoResponse
                /\ returned' = PyNone
                /\ prompt' = NoPrompt
                /\ current_syllabus' = syllabus
                /\ industry_skills' = skills
           ELSE /\ raised' = FALSE
                /\ \E resp \in Responses :
                    /\ response' = resp
                    /\ calls' = CompletionCalls(resp)
                    /\ returned' = AnalyzeReturn(resp)
                    /\ prompt' = GapPrompt(syllabus, skills)
                    /\ current_syllabus' =
                         args_after_analyze(syllabus, skills, resp).current_syllabus
                    /\ industry_skills' =
                         args_after_analyze(syllabus, skills, resp).industry_skills
    /\ stage' = "analyze_skill_gaps"
    /\ UNCHANGED <<gap_analysis, jobs>>
    /\ UNCHANGED <<storeVars, runVars>>

create_updated_syllabus ==
    /\ stage = "idle"
    /\ \E syllabus \in InputSyllabi, report \in InputReports, resp \in Responses :
        /\ passed' = [NoArgs EXCEPT !.current_syllabus = syllabus,
                                     !.gap_analysis = report]
        /\ current_syllabus' = args_after_synth(syllabus, report, resp).current_syllabus
        /\ gap_analysis' = args_after_synth(syllabus, report, resp).gap_analysis
        /\ response' = resp
        /\ returned' = SynthReturn(syllabus, resp)
        /\ prompt' = SynthPrompt(syllabus, report)
        /\ calls' = CompletionCalls(resp)
    /\ stage' = "create_updated_syllabus"
    /\ raised' = FALSE
    /\ UNCHANGED <<industry_skills, jobs>>
    /\ UNCHANGED <<storeVars, runVars>>

Next ==
    \/ extract_skills_from_jobs
    \/ analyze_skill_gaps
    \/ create_updated_syllabus

Spec == Init /\ [][Next]_vars

(***************************************************************************)
(* The artifact files: save_skills and load_skills.                        *)
(***************************************************************************)
\* the file names the skills are saved under
StoreNames == {"extracted_skills.json", "skills_backup.json"}

\* a variant of open_w: the file is opened for appending
open_a(old, text) == [exists |-> TRUE, text |-> old.text \o text]

\* open(filename, 'w') followed by the writes: the old content is dropped
open_w(old, text) == [exists |-> TRUE, text |-> text]

\* load: a missing file is FileNotFoundError, a file that is not one JSON
\* document raises JSONDecodeError
json_load(file) ==
    IF ~file.exists THEN [how |-> "FileNotFoundError", val |-> PyNone]
    ELSE LET p == json_loads(file.text)
         IN  IF p.ok THEN [how |-> "value", val |-> p.val]
                     ELSE [how |-> "JSONDecodeError", val |-> PyNone]

\* load_skills: only FileNotFoundError is caught, and answered with {}
LoadSkillsReturn(file) ==
    LET l == json_load(file)
    IN  IF l.how = "value" THEN [raised |-> FALSE, val |-> l.val]
        ELSE IF l.how = "FileNotFoundError" THEN [raised |-> FALSE, val |-> PyDict(<<>>)]
        ELSE [raised |-> TRUE, val |-> PyNone]

\* the taxonomies handed to save_skills: what extract_skills_from_jobs
\* returns for the fallback, for replies of one and two skills, for a
\* reply with one category only, and for the reply {}
StoreSkills ==
    {EmptySkills,
     PyDict(FullTaxonomy(PyDict(<<KV("Python", PyInt(1))>>), PyDict(<<>>))),
     PyDict(FullTaxonomy(PyDict(<<KV("SQL", PyInt(1)), KV("Python", PyInt(0))>>),
                         PyDict(<<KV("React", PyInt(1))>>))),
     PyDict(<<KV(Categories[2], PyDict(<<KV("React", PyInt(0))>>))>>),
     PyDict(<<>>)}

InitStore ==
    /\ StageIdle
    /\ RunOff
    /\ files = [n \in StoreNames |-> NoFile]
    /\ saved = [n \in StoreNames |-> NeverSaved]
    /\ loaded = NoStoreCall

save_skills ==
    \E skills \in StoreSkills, filename \in StoreNames :
        /\ files' = [files EXCEPT ![filename] = open_w(@, json_dump(skills, 0))]
        /\ saved' = [saved EXCEPT ![filename] = [ever |-> TRUE, val |-> skills]]
        /\ loaded' = [op |-> "save_skills", name |-> filename, val |-> PyNone,
                      raised |-> FALSE]
        /\ UNCHANGED <<stageVars, runVars>>

load_skills ==
    \E filename \in StoreNames :
        LET r == LoadSkillsReturn(files[filename])
        IN  /\ loaded' = [op |-> "load_skills", name |-> filename, val |-> r.val,
                          raised |-> r.raised]
            /\ UNCHANGED <<files, saved, stageVars, runVars>>

NextStore ==
    \/ save_skills
    \/ load_skills

SpecStore == InitStore /\ [][NextStore]_vars

(***************************************************************************)
(* The run of the pipeline: main() of main.py and the session of app.py.   *)
(***************************************************************************)
\* bool(v) of Python
Truthy(v) ==
    IF v.t = "null" THEN FALSE
    ELSE IF v.t = "int" THEN v.n # 0
    ELSE IF v.t = "str" THEN v.s # ""
    ELSE v.items # <<>>

RunFiles ==
    {"jobs.json", "demo_jobs.json", "current_syllabus.json",
     "extracted_skills.json", "gap_analysis.json", "updated_syllabus.json",
     "syllabus_report.pdf"}

\* generate_pdf builds the report file
WritePdf(fs) == [fs EXCEPT !["syllabus_report.pdf"] = [exists |-> TRUE, text |-> <<"PDF">>]]

\* with open(name, 'w') ... json.dump(v, f, indent=2)
WriteJson(fs, name, v) == [fs EXCEPT ![name] = open_w(@, json_dump(v, 0))]

\* the posting lists a scrape, a jobs file or an upload delivers
RunJobs == {PyList(<<>>), PyList(<<Job("Dev", "Acme")>>)}

\* create_default_syllabus, cut to its program name and no module
create_default_syllabus ==
    PyDict(<<KV("program_name", PyStr("SE")), KV("modules", PyList(<<>>))>>)

\* the syllabus of a syllabus file or of an upload
FileSyllabus ==
    PyDict(<<KV("program_name", PyStr("Web")), KV("modules", PyList(<<>>))>>)

\* load_current_syllabus: a missing file is answered with the default
\* syllabus
load_current_syllabus(file) ==
    LET l == json_load(file)
    IN  IF l.how = "value" THEN [raised |-> FALSE, val |-> l.val]
        ELSE IF l.how = "FileNotFoundError"
             THEN [raised |-> FALSE, val |-> create_default_syllabus]
        ELSE [raised |-> TRUE, val |-> PyNone]

\* load_from_json: a missing file is answered with no posting
load_from_json(file) ==
    LET l == json_load(file)
    IN  IF l.how = "value" THEN [raised |-> FALSE, val |-> l.val]
        ELSE IF l.how = "FileNotFoundError"
             THEN [raised |-> FALSE, val |-> PyList(<<>>)]
        ELSE [raised |-> TRUE, val |-> PyNone]

\* the replies of the completion service during a run: a taxonomy, a gap
\* report, a revised curriculum, the empty object and a prose word
RunTaxonomy ==
    PyDict(FullTaxonomy(PyDict(<<KV("Python", PyInt(0)), KV("SQL", PyInt(1))>>),
                        PyDict(<<>>)))

RunReport == PyDict(<<KV("summary", PyStr("many"))>>)

RunSyllabus ==
    PyDict(<<KV("program_name", PyStr("SE")),
             KV("modules", PyList(<<PyDict(<<KV("name", PyStr("Web"))>>)>>))>>)

\* the outcomes of the completion call of a stage of the run: the call
\* raises, the reply is the document asked for, the reply is {}
RunResponses(document) ==
    {[kind |-> "raise", content |-> <<>>],
     [kind |-> "content", content |-> Text(document)],
     [kind |-> "content", content |-> <<"{", "}">>]}

\* one invocation of extract_skills_from_jobs by the run
InvokeExtract(js, resp) ==
    /\ stage' = "extract_skills_from_jobs"
    /\ passed' = [NoArgs EXCEPT !.jobs = js]
    /\ jobs' = jobs_after_extract(js, resp)
    /\ current_syllabus' = NotPassed
    /\ industry_skills' = NotPassed
    /\ gap_analysis' = NotPassed
    /\ response' = resp
    /\ calls' = CompletionCalls(resp)
    /\ returned' = ExtractReturn(resp)
    /\ prompt' = ExtractPrompt(js)
    /\ raised' = FALSE
    /\ hist' = [hist EXCEPT !.built = ExtractReturn(resp)]

\* one invocation of analyze_skill_gaps by the run
InvokeAnalyze(syllabus, skills, resp) ==
    /\ stage' = "analyze_skill_gaps"
    /\ passed' = [NoArgs EXCEPT !.current_syllabus = syllabus,
                                 !.industry_skills = skills]
    /\ jobs' = NotPassed
    /\ gap_analysis' = NotPassed
    /\ IF RenderRaises(skills)
       THEN /\ raised' = TRUE
            /\ calls' = 0
            /\ response' = NoResponse
            /\ returned' = PyNone
            /\ prompt' = NoPrompt
            /\ current_syllabus' = syllabus
            /\ industry_skills' = skills
       ELSE /\ raised' = FALSE
            /\ calls' = CompletionCalls(resp)
            /\ response' = resp
            /\ returned' = AnalyzeReturn(resp)
            /\ prompt' = GapPrompt(syllabus, skills)
            /\ current_syllabus' =
                 args_after_analyze(syllabus, skills, resp).current_syllabus
            /\ industry_skills' =
                 args_after_analyze(syllabus, skills, resp).industry_skills
    /\ UNCHANGED hist

\* one invocation of create_updated_syllabus by the run
InvokeSynth(syllabus, report, resp) ==
    /\ stage' = "create_updated_syllabus"
    /\ passed' = [NoArgs EXCEPT !.current_syllabus = syllabus,
                                 !.gap_analysis = report]
    /\ jobs' = NotPassed
    /\ industry_skills' = NotPassed
    /\ current_syllabus' = args_after_synth(syllabus, report, resp).current_syllabus
    /\ gap_analysis' = args_after_synth(syllabus, report, resp).gap_analysis
    /\ response' = resp
    /\ calls' = CompletionCalls(resp)
    /\ returned' = SynthReturn(syllabus, resp)
    /\ prompt' = SynthPrompt(syllabus, report)
    /\ raised' = FALSE
    /\ UNCHANGED hist

\* a variant of AfterJobs: main() goes on without looking at the postings
AfterJobs_NoCheck(js) == "jobs_loaded"

\* if not jobs: return
AfterJobs(js) == IF Truthy(js) THEN "jobs_loaded" ELSE "aborted"

\* main(), step 1: the postings are scraped, or loaded from jobs.json under
\* --skip-scraping; main returns when there is none
main_jobs ==
    /\ mode = "cli"
    /\ pc = "start"
    /\ \E skip_scraping \in BOOLEAN :
        IF skip_scraping
        THEN LET l == load_from_json(files["jobs.json"])
             IN  /\ main' = [main EXCEPT !.jobs = IF l.raised THEN @ ELSE l.val]
                 /\ pc' = IF l.raised THEN "crashed" ELSE AfterJobs(l.val)
                 /\ UNCHANGED files
        ELSE \E js \in RunJobs :
                 /\ main' = [main EXCEPT !.jobs = js]
                 /\ pc' = AfterJobs(js)
                 /\ files' = IF Truthy(js) THEN WriteJson(files, "jobs.json", js)
                                           ELSE files
    /\ UNCHANGED <<stageVars, saved, loaded, mode, env, session, hist>>

\* main(), step 2: SkillsExtractor() raises without the key; the taxonomy
\* is extracted, saved, and its top skills are printed
main_extract ==
    /\ mode = "cli"
    /\ pc = "jobs_loaded"
    /\ IF ~env
       THEN /\ pc' = "crashed"
            /\ UNCHANGED <<stageVars, files, main, hist>>
       ELSE \E resp \in RunResponses(RunTaxonomy) :
                /\ InvokeExtract(main.jobs, resp)
                /\ main' = [main EXCEPT !.aggregated_skills = ExtractReturn(resp)]
                /\ files' = WriteJson(files, "extracted_skills.json", ExtractReturn(resp))
                /\ pc' = IF RenderRaises(ExtractReturn(resp)) THEN "crashed"
                                                              ELSE "extracted"
    /\ UNCHANGED <<saved, loaded, mode, env, session>>

\* main(), step 3, first half: the syllabus is loaded (the default one for
\* a missing file), the gaps are analysed and the report is saved
main_analyze ==
    /\ mode = "cli"
    /\ pc = "extracted"
    /\ LET l == load_current_syllabus(files["current_syllabus.json"])
       IN  IF l.raised
           THEN /\ pc' = "crashed"
                /\ UNCHANGED <<stageVars, files, main, hist>>
           ELSE \E resp \in RunResponses(RunReport) :
                    /\ InvokeAnalyze(l.val, main.aggregated_skills, resp)
                    /\ IF RenderRaises(main.aggregated_skills)
                       THEN /\ main' = [main EXCEPT !.current_syllabus = l.val]
                            /\ pc' = "crashed"
                            /\ UNCHANGED files
                       ELSE /\ main' = [main EXCEPT !.current_syllabus = l.val,
                                                    !.gap_analysis = AnalyzeReturn(resp)]
                            /\ files' = WriteJson(files, "gap_analysis.json",
                                                  AnalyzeReturn(resp))
                            /\ pc' = "analyzed"
    /\ UNCHANGED <<saved, loaded, mode, env, session>>

\* main(), step 3, second half: the syllabus is revised and saved
main_synth ==
    /\ mode = "cli"
    /\ pc = "analyzed"
    /\ \E resp \in RunResponses(RunSyllabus) :
        /\ InvokeSynth(main.current_syllabus, main.gap_analysis, resp)
        /\ main' = [main EXCEPT !.updated_syllabus =
                                    SynthReturn(main.current_syllabus, resp)]
        /\ files' = WriteJson(files, "updated_syllabus.json",
                              SynthReturn(main.current_syllabus, resp))
    /\ pc' = "revised"
    /\ UNCHANGED <<saved, loaded, mode, env, session>>

\* main(), step 4: the report is generated from the locals
main_report ==
    /\ mode = "cli"
    /\ pc = "revised"
    /\ pc' = "done"
    /\ files' = WritePdf(files)
    /\ UNCHANGED <<stageVars, saved, loaded, mode, env, session, main, hist>>

\* the sidebar: a key typed in is put into the environment
sidebar_api_key ==
    /\ mode = "ui"
    /\ pc = "page"
    /\ ~env
    /\ env' = TRUE
    /\ UNCHANGED <<stageVars, storeVars, mode, pc, session, main, hist>>

\* Job Scraping page, Start Scraping: the postings replace those of the
\* session, and are saved, only when there is one
job_scraping_scrape ==
    /\ mode = "ui"
    /\ pc = "page"
    /\ \E js \in RunJobs :
        IF Truthy(js)
        THEN /\ session' = [session EXCEPT !.jobs = js]
             /\ files' = WriteJson(files, "jobs.json", js)
        ELSE UNCHANGED <<session, files>>
    /\ UNCHANGED <<stageVars, saved, loaded, mode, pc, env, main, hist>>

\* Job Scraping page, Load Demo Jobs: the content of demo_jobs.json replaces
\* the postings of the session, whatever it holds
job_scraping_load_demo ==
    /\ mode = "ui"
    /\ pc = "page"
    /\ LET l == json_load(files["demo_jobs.json"])
       IN  session' = [session EXCEPT !.jobs = IF l.how = "value" THEN l.val ELSE @]
    /\ UNCHANGED <<stageVars, storeVars, mode, pc, env, main, hist>>

\* Job Scraping page, upload of a jobs file: its content replaces the
\* postings of the session, whatever it holds
job_scraping_upload ==
    /\ mode = "ui"
    /\ pc = "page"
    /\ \E js \in RunJobs : session' = [session EXCEPT !.jobs = js]
    /\ UNCHANGED <<stageVars, storeVars, mode, pc, env, main, hist>>

\* the postings of the session once skills_analysis_page has tried
\* demo_jobs.json for an empty list
AutoLoaded(js, fs) ==
    LET l == json_load(fs["demo_jobs.json"])
    IN  IF ~Truthy(js) /\ l.how = "value" THEN l.val ELSE js

\* a variant of SkillsGate: the page does not ask for the key
SkillsGate_JobsOnly(js, key) == Truthy(js)

\* Skills Analysis page: nothing is offered without postings or without
\* the key
SkillsGate(js, key) == Truthy(js) /\ key

\* Skills Analysis page, with or without a click on Extract Skills: the
\* page returns without postings or without the key; the click extracts,
\* stores the taxonomy in the session and saves it
skills_analysis_page ==
    /\ mode = "ui"
    /\ pc = "page"
    /\ LET js == AutoLoaded(session.jobs, files)
       IN  \E click \in BOOLEAN :
               IF SkillsGate(js, env) /\ click
               THEN \E resp \in RunResponses(RunTaxonomy) :
                        /\ InvokeExtract(js, resp)
                        /\ session' = [session EXCEPT !.jobs = js,
                                                      !.skills = ExtractReturn(resp)]
                        /\ files' = WriteJson(files, "extracted_skills.json",
                                              ExtractReturn(resp))
               ELSE /\ session' = [session EXCEPT !.jobs = js]
                    /\ UNCHANGED <<stageVars, files, hist>>
    /\ UNCHANGED <<saved, loaded, mode, pc, env, main>>

\* a variant of MatchingGate: the page asks for a skill in some category
MatchingGate_SomeSkill(sess, key) ==
    /\ key
    /\ IsDict(sess.skills)
    /\ \E i \in 1..Len(sess.skills.items) : Truthy(sess.skills.items[i].v)

\* a variant of MatchingGate: the page does not look at the skills
MatchingGate_KeyOnly(sess, key) == key

\* Syllabus Matching page: nothing is offered without extracted skills or
\* without the key
MatchingGate(sess, key) == Truthy(sess.skills) /\ key

\* the outcomes of PDFToJSONConverter().process_pdf: it raises, or it
\* returns the syllabus it read and has saved
ConvertOutcomes ==
    {[raised |-> TRUE, val |-> PyNone], [raised |-> FALSE, val |-> FileSyllabus]}

\* Syllabus Matching page, a PDF in the uploader: it is kept for the
\* conversion (pdf_path is set with pdf_uploaded)
matching_upload_pdf ==
    /\ mode = "ui"
    /\ pc = "page"
    /\ MatchingGate(session, env)
    /\ session' = [session EXCEPT !.pdf_uploaded = TRUE]
    /\ UNCHANGED <<stageVars, storeVars, mode, pc, env, main, hist>>

\* Syllabus Matching page, Preview Converted JSON
matching_preview_pdf ==
    /\ mode = "ui"
    /\ pc = "page"
    /\ MatchingGate(session, env)
    /\ session.pdf_uploaded
    /\ \E conv \in ConvertOutcomes :
        IF conv.raised
        THEN UNCHANGED <<session, files>>
        ELSE /\ session' = [session EXCEPT !.current_syllabus = conv.val]
             /\ files' = WriteJson(files, "current_syllabus.json", conv.val)
    /\ UNCHANGED <<stageVars, saved, loaded, mode, pc, env, main, hist>>

\* Syllabus Matching page, a syllabus JSON file in the uploader
matching_upload_json ==
    /\ mode = "ui"
    /\ pc = "page"
    /\ MatchingGate(session, env)
    /\ session' = [session EXCEPT !.current_syllabus = FileSyllabus]
    /\ UNCHANGED <<stageVars, storeVars, mode, pc, env, main, hist>>

\* Syllabus Matching page, Load Default Syllabus
matching_load_default ==
    /\ mode = "ui"
    /\ pc = "page"
    /\ MatchingGate(session, env)
    /\ session' = [session EXCEPT !.current_syllabus = create_default_syllabus]
    /\ UNCHANGED <<stageVars, storeVars, mode, pc, env, main, hist>>

\* Syllabus Matching page, Analyze & Match up to the gap report: an
\* uploaded PDF is converted when the session has no syllabus; the handler
\* returns without a syllabus; the report is stored and saved
matching_analyze ==
    /\ mode = "ui"
    /\ pc = "page"
    /\ MatchingGate(session, env)
    /\ \E conv \in ConvertOutcomes, resp \in RunResponses(RunReport) :
        LET convert == session.pdf_uploaded /\ session.current_syllabus = Unbound
            syllabus == IF convert /\ ~conv.raised THEN conv.val
                        ELSE session.current_syllabus
        IN  IF (convert /\ conv.raised) \/ syllabus = Unbound
            THEN UNCHANGED <<stageVars, files, session, pc, hist>>
            ELSE /\ InvokeAnalyze(syllabus, session.skills, resp)
                 /\ IF RenderRaises(session.skills)
                    THEN /\ session' = [session EXCEPT !.current_syllabus = syllabus]
                         /\ files' = IF convert
                                     THEN WriteJson(files, "current_syllabus.json", syllabus)
                                     ELSE files
                         /\ pc' = "page"
                    ELSE /\ session' = [session EXCEPT
                                            !.current_syllabus = syllabus,
                                            !.gap_analysis = AnalyzeReturn(resp)]
                         /\ files' = WriteJson(
                                IF convert
                                THEN WriteJson(files, "current_syllabus.json", syllabus)
                                ELSE files,
                                "gap_analysis.json", AnalyzeReturn(resp))
                         /\ pc' = "analyzed"
    /\ UNCHANGED <<saved, loaded, mode, env, main>>

\* Syllabus Matching page, Analyze & Match from the gap report on: the
\* syllabus of the session is revised, stored and saved
matching_synth ==
    /\ mode = "ui"
    /\ pc = "analyzed"
    /\ \E resp \in RunResponses(RunSyllabus) :
        /\ InvokeSynth(session.current_syllabus, session.gap_analysis, resp)
        /\ session' = [session EXCEPT !.updated_syllabus =
                                          SynthReturn(session.current_syllabus, resp)]
        /\ files' = WriteJson(files, "updated_syllabus.json",
                              SynthReturn(session.current_syllabus, resp))
    /\ pc' = "page"
    /\ UNCHANGED <<saved, loaded, mode, env, main>>

\* Syllabus Matching page: the results of the session are shown
ResultsDisplayed(sess) == Truthy(sess.gap_analysis) /\ Truthy(sess.updated_syllabus)

\* Generate Report page: nothing is offered without both results
ReportGate(sess) == Truthy(sess.gap_analysis) /\ Truthy(sess.updated_syllabus)

\* Generate Report page, Generate PDF Report
generate_report_page ==
    /\ mode = "ui"
    /\ pc = "page"
    /\ ReportGate(session)
    /\ files' = WritePdf(files)
    /\ UNCHANGED <<stageVars, saved, loaded, mode, pc, env, session, main, hist>>

\* the disk at the start of a run: the postings file of the run (jobs.json
\* for main(), demo_jobs.json for the session) is missing, empty or holds a
\* posting; the syllabus file is missing or holds a syllabus
InitDisks(postings_file) ==
    {[n \in RunFiles |->
        IF n = postings_file /\ p # Unbound THEN open_w(NoFile, json_dump(p, 0))
        ELSE IF n = "current_syllabus.json" /\ syl
             THEN open_w(NoFile, json_dump(FileSyllabus, 0))
        ELSE NoFile]
     : p \in RunJobs \cup {Unbound}, syl \in BOOLEAN}

InitRun ==
    /\ StageIdle
    /\ saved = <<>>
    /\ loaded = NoStoreCall
    /\ hist = NoHist
    /\ mode \in {"cli", "ui"}
    /\ IF mode = "cli"
       THEN /\ pc = "start"
            /\ env \in BOOLEAN
            /\ main = NoMain
            /\ session = NoSession
            /\ files \in InitDisks("jobs.json")
       ELSE /\ pc = "page"
            /\ env = FALSE
            /\ main = NoMain
            /\ session = [jobs |-> PyList(<<>>), skills |-> PyDict(<<>>),
                          gap_analysis |-> PyDict(<<>>),
                          updated_syllabus |-> PyDict(<<>>),
                          current_syllabus |-> Unbound, pdf_uploaded |-> FALSE]
            /\ files \in InitDisks("demo_jobs.json")

NextRun ==
    \/ main_jobs
    \/ main_extract
    \/ main_analyze
    \/ main_synth
    \/ main_report
    \/ sidebar_api_key
    \/ job_scraping_scrape
    \/ job_scraping_load_demo
    \/ job_scraping_upload
    \/ skills_analysis_page
    \/ matching_upload_pdf
    \/ matching_preview_pdf
    \/ matching_upload_json
    \/ matching_load_default
    \/ matching_analyze
    \/ matching_synth
    \/ generate_report_page

SpecRun == InitRun /\ [][NextRun]_vars

(***************************************************************************)
(* analyze_skill_gaps on the taxonomies extract_skills_from_jobs returns.  *)
(***************************************************************************)
\* every taxonomy extract_skills_from_jobs returns for a reply or a failure
BuiltSkills == {ExtractReturn(r) : r \in Responses}

\* the outcomes of the completion call of analyze_skill_gaps: a failure, a
\* report, JSON that is no object, prose with and without an object
GapResponses ==
    {[kind |-> "raise", content |-> <<>>], [kind |-> "none", content |-> <<>>]}
    \cup {[kind |-> "content", content |-> Text(v)] : v \in GapVals \cup ScalarVals}
    \cup {[kind |-> "content", content |-> t]
            : t \in {<<"w">>, <<"w", SP>> \o Text(RunReport), <<"{", "w", "}">>}}

InitGap ==
    /\ StageIdle
    /\ StoreOff
    /\ RunOff

\* main.py:61 and 80, app.py:360 and 527: the taxonomy handed to
\* analyze_skill_gaps is one extract_skills_from_jobs has returned
analyze_built_skills ==
    /\ stage = "idle"
    /\ \E syllabus \in InputSyllabi, skills \in BuiltSkills, resp \in GapResponses :
        InvokeAnalyze(syllabus, skills, resp)
    /\ UNCHANGED <<storeVars, mode, pc, env, session, main>>

NextGap == analyze_built_skills

SpecGap == InitGap /\ [][NextGap]_vars

(***************************************************************************)
(* The stages on inputs longer than what their prompts hold.               *)
(***************************************************************************)
\* posting lists reach MaxPromptJobs + MaxExtraJobs postings, descriptions
\* ExcerptChars + MaxExtraChars characters, categories TopSkills +
\* MaxExtraSkills entries
MaxExtraJobs == 2

MaxExtraChars == 1

MaxExtraSkills == 2

\* the k-th posting of a list: its own title and description text, of
\* chars characters; a bare posting has none of the three keys
Posting(k, chars, bare) ==
    IF bare THEN PyDict(<<KV("url", PyStr(ToString(k)))>>)
    ELSE PyDict(<<KV("title", PyStr(ToString(k))), KV("company", PyStr("Acme")),
                  KV("description", PyText(ToString(k), chars))>>)

PromptJobLens ==
    {0, 1} \cup ((MaxPromptJobs - 1)..(MaxPromptJobs + MaxExtraJobs))

PromptChars ==
    {0} \cup ((ExcerptChars - 1)..(ExcerptChars + MaxExtraChars))

\* posting lists: every posting with a description of one length, or the
\* odd ones bare
PromptJobs ==
    {PyList([k \in 1..n |-> Posting(k, chars, bare /\ k % 2 = 1)]) :
        n \in PromptJobLens, chars \in PromptChars, bare \in BOOLEAN}

\* a category of n entries, the i-th called i: counts falling (as the
\* extractor sorts them) or rising
Category(n, falling) ==
    PyDict([i \in 1..n |-> KV(ToString(i), PyInt(IF falling THEN n - i ELSE i))])

PromptCategoryLens ==
    {0, 1} \cup ((TopSkills - 1)..(TopSkills + MaxExtraSkills))

PromptSkills ==
    {PyDict(FullTaxonomy(Category(a, falling), Category(b, falling))) :
        a \in PromptCategoryLens, b \in {0, TopSkills + 1}, falling \in BOOLEAN}

InitPrompt == StageIdle /\ StoreOff /\ RunOff

extract_from_postings ==
    /\ stage = "idle"
    /\ \E js \in PromptJobs, resp \in RunResponses(RunTaxonomy) :
        InvokeExtract(js, resp)
    /\ UNCHANGED <<storeVars, mode, pc, env, session, main>>

analyze_large_taxonomy ==
    /\ stage = "idle"
    /\ \E syllabus \in InputSyllabi, skills \in PromptSkills,
          resp \in RunResponses(RunReport) :
        InvokeAnalyze(syllabus, skills, resp)
    /\ UNCHANGED <<storeVars, mode, pc, env, session, main>>

NextPrompt == extract_from_postings \/ analyze_large_taxonomy

SpecPrompt == InitPrompt /\ [][NextPrompt]_vars

(***************************************************************************)
(* Vocabulary of the properties.                                           *)
(***************************************************************************)
\* the outcome of the completion call is a text
HasContent == response.kind = "content"
\* the completion call raised, or its content was None
CallFailed == response.kind \in {"raise", "none"}

\* the four categories, each mapped to an empty mapping, and nothing else
FourEmptyCategories ==
    PyDict(<<KV("technical_skills", PyDict(<<>>)), KV("soft_skills", PyDict(<<>>)),
             KV("domain_knowledge", PyDict(<<>>)), KV("tools_platforms", PyDict(<<>>))>>)

\* the empty gap report: five fields, four empty lists and an empty summary
EmptyReport ==
    PyDict(<<KV("missing_skills", PyList(<<>>)), KV("needs_more_emphasis", PyList(<<>>)),
             KV("outdated_topics", PyList(<<>>)), KV("new_modules", PyList(<<>>)),
             KV("summary", PyStr(""))>>)

\* the substring from the first opening brace to the last closing brace
BraceSpan(text) == SubSeq(text, find(text, "{") + 1, rfind(text, "}") + 1)

\* no decode attempt of analyze_skill_gaps / create_updated_syllabus can
\* parse the text: it is not JSON as a whole, and it has no opening brace,
\* or no closing brace, or the last closing brace precedes the first
\* opening brace, or the brace-delimited substring is not JSON
Undecodable(text) ==
    /\ ~json_loads(text).ok
    /\ \/ find(text, "{") = -1
       \/ rfind(text, "}") = -1
       \/ rfind(text, "}") < find(text, "{")
       \/ ~json_loads(BraceSpan(text)).ok

ProseToks == {"w", SP, NL}

\* prose around exactly one well-formed JSON object: outside the span from
\* the first opening to the last closing brace there are only words, blanks
\* and newlines, at least one word, and the span is a JSON object
IsProseWithObject(text) ==
    LET i == find(text, "{") + 1
        j == rfind(text, "}") + 1
    IN  /\ 1 <= i /\ i <= j
        /\ \A n \in 1..Len(text) : (n < i \/ n > j) => text[n] \in ProseToks
        /\ \E n \in 1..Len(text) : (n < i \/ n > j) /\ text[n] = "w"
        /\ json_loads(SubSeq(text, i, j)).ok

\* number of tokens of the opening fence line with its newline, 0 if none
OpeningLen(c) ==
    IF Len(c) >= 3 /\ c[1] = FENCE /\ c[2] = "json" /\ c[3] = NL THEN 3
    ELSE IF Len(c) >= 2 /\ c[1] = FENCE /\ c[2] = NL THEN 2
    ELSE 0

\* what stands between the opening fence line and the closing fence line
FenceInner(text) ==
    LET c == strip(text) IN SubSeq(c, OpeningLen(c) + 1, Len(c) - 2)

\* an opening fence line (bare or tagged json), a well-formed JSON object,
\* a closing fence line; whitespace may surround the whole
IsFenced(text) ==
    LET c == strip(text)
        inner == json_loads(FenceInner(text))
    IN  /\ OpeningLen(c) > 0
        /\ Len(c) >= OpeningLen(c) + 2
        /\ c[Len(c) - 1] = NL /\ c[Len(c)] = FENCE
        /\ inner.ok
        /\ IsDict(inner.val)

\* the pairs of a mapping, as a set
Pairs(d) == {d.items[i] : i \in 1..Len(d.items)}

\* every value of the object is a mapping whose values can be compared
\* with one another
IsTaxonomy(v) ==
    /\ IsDict(v)
    /\ \A i \in 1..Len(v.items) :
          /\ IsDict(v.items[i].v)
          /\ \A m, n \in 1..Len(v.items[i].v.items) :
                m # n => LET a == v.items[i].v.items[m].v
                             b == v.items[i].v.items[n].v
                         IN  a.t = b.t /\ a.t \in {"int", "str"}

\* Python's == on two taxonomies: the same categories, each with the same
\* skill -> frequency pairs, whatever the iteration order
SameTaxonomy(a, b) ==
    /\ IsDict(a) /\ IsDict(b)
    /\ KeySet(a) = KeySet(b)
    /\ Len(a.items) = Len(b.items)
    /\ \A key \in KeySet(a) :
          /\ IsDict(Get(a, key)) /\ IsDict(Get(b, key))
          /\ Pairs(Get(a, key)) = Pairs(Get(b, key))
          /\ Len(Get(a, key).items) = Len(Get(b, key).items)

\* position of a key in a sequence of pairs
Pos(kvs, key) == CHOOSE i \in 1..Len(kvs) : kvs[i].k = key

\* the reply of the extractor once cleaned and parsed
ParsedReply == json_loads(cleaned_result(response.content))

(***************************************************************************)
(* Properties.                                                             *)
(***************************************************************************)

\* C1: when the completion call of create_updated_syllabus fails, the value
\* returned is exactly the input curriculum and no exception reaches the
\* caller.
C1_SynthFailureReturnsInput ==
    (stage = "create_updated_syllabus" /\ response.kind = "raise")
        => (returned = current_syllabus /\ ~raised)

C1_Witness ==
    /\ stage = "create_updated_syllabus"
    /\ response.kind = "raise"
    /\ current_syllabus # PyDict(<<>>)
    /\ returned = current_syllabus

\* C2: for every reply that no decode attempt of create_updated_syllabus
\* can parse (no braces, mismatched braces, a closing brace before the first
\* opening brace, a brace-delimited substring that is not JSON), the value
\* returned equals the input curriculum and no exception reaches the caller.
C2_SynthUndecodableReturnsInput ==
    (stage = "create_updated_syllabus" /\ HasContent /\ Undecodable(response.content))
        => (returned = current_syllabus /\ ~raised)

\* a closing brace before the first opening brace, with a non-empty input
C2_Witness ==
    /\ stage = "create_updated_syllabus"
    /\ HasContent
    /\ Undecodable(response.content)
    /\ find(response.content, "{") > rfind(response.content, "}")
    /\ rfind(response.content, "}") # -1
    /\ current_syllabus # PyDict(<<>>)
    /\ returned = current_syllabus

\* C3: whenever the completion call of analyze_skill_gaps fails or the reply
\* cannot be decoded, the report returned is the empty report: the five
\* fields missing_skills, needs_more_emphasis, outdated_topics, new_modules
\* (all empty) and summary (empty), and no other field.
C3_GapFailureReturnsEmptyReport ==
    (/\ stage = "analyze_skill_gaps"
     /\ ~raised
     /\ CallFailed \/ (HasContent /\ Undecodable(response.content)))
        => returned = EmptyReport

\* C4: whenever the completion call of extract_skills_from_jobs fails or the
\* reply cannot be decoded, the taxonomy returned is the four categories
\* each mapped to an empty mapping, and no exception reaches the caller.
C4_ExtractFailureReturnsEmptyTaxonomy ==
    (/\ stage = "extract_skills_from_jobs"
     /\ CallFailed \/ (HasContent /\ ~ParsedReply.ok))
        => (returned = FourEmptyCategories /\ ~raised)

\* a reply with text in it that does not parse
C4_Witness ==
    /\ stage = "extract_skills_from_jobs"
    /\ HasContent
    /\ ~ParsedReply.ok
    /\ Len(response.content) > 1
    /\ returned = FourEmptyCategories

\* C5: every taxonomy returned by extract_skills_from_jobs, for every reply,
\* holds all four category keys.
C5_AllFourCategoriesPresent ==
    stage = "extract_skills_from_jobs"
        => /\ IsDict(returned)
           /\ \A i \in 1..4 : Categories[i] \in KeySet(returned)

\* C6: in every taxonomy returned by extract_skills_from_jobs, the entries
\* of every category are in non-increasing order of frequency.
C6_CategoriesNonIncreasing ==
    stage = "extract_skills_from_jobs"
        => \A c \in 1..Len(returned.items) :
              LET kvs == returned.items[c].v.items IN
              \A i \in 1..(Len(kvs) - 1) :
                  /\ kvs[i].v.t = kvs[i + 1].v.t
                  /\ kvs[i].v.t = "int" => kvs[i].v.n >= kvs[i + 1].v.n
                  /\ kvs[i].v.t = "str" => kvs[i].v.s = kvs[i + 1].v.s

\* the reply listed a category in increasing order and the taxonomy
\* returned holds it in decreasing order
C6_Witness ==
    /\ stage = "extract_skills_from_jobs"
    /\ HasContent /\ ParsedReply.ok /\ IsDict(ParsedReply.val)
    /\ \E c \in 1..Len(returned.items) :
          LET kvs == returned.items[c].v.items
              was == ParsedReply.val.items[c].v.items
          IN  /\ Len(kvs) >= 2 /\ Len(was) = Len(kvs)
              /\ kvs[1].v.t = "int" /\ kvs[2].v.t = "int"
              /\ kvs[1].v.n > kvs[2].v.n
              /\ was[1].v.n < was[2].v.n

\* C7: the descending sort keeps ties in reply order: of two skills of one
\* category with equal frequency, the one that comes first in the reply
\* comes first in the taxonomy returned.
C7_TiesKeepReplyOrder ==
    (stage = "extract_skills_from_jobs" /\ HasContent /\ IsDict(returned))
        => LET parsed == ParsedReply
           IN  (parsed.ok /\ IsTaxonomy(parsed.val))
                  => \A key \in KeySet(parsed.val) \cap KeySet(returned) :
                        LET was == Get(parsed.val, key).items
                            now == Get(returned, key).items
                        IN  \A i, j \in 1..Len(was) :
                               (/\ i < j
                                /\ was[i].v = was[j].v
                                /\ was[i] \in Pairs(Get(returned, key))
                                /\ was[j] \in Pairs(Get(returned, key)))
                                   => Pos(now, was[i].k) < Pos(now, was[j].k)

\* a category returned with two skills of equal frequency
C7_Witness ==
    /\ stage = "extract_skills_from_jobs"
    /\ HasContent /\ ParsedReply.ok /\ IsTaxonomy(ParsedReply.val)
    /\ \E c \in 1..Len(returned.items) :
          LET kvs == returned.items[c].v.items IN
          /\ Len(kvs) >= 2
          /\ kvs[1].v.t = "int"
          /\ kvs[1].v = kvs[2].v
          /\ kvs = ParsedReply.val.items[c].v.items

\* C8: for every reply made of prose around exactly one well-formed JSON
\* object, without a code fence, extract_skills_from_jobs returns the
\* taxonomy parsed from that span (sorted), not the empty default.
C8_ExtractRecoversBraceSpan ==
    (/\ stage = "extract_skills_from_jobs"
     /\ HasContent
     /\ IsProseWithObject(response.content)
     /\ IsTaxonomy(json_loads(BraceSpan(response.content)).val))
        => SameTaxonomy(returned, json_loads(BraceSpan(response.content)).val)

\* C9: for every reply made of prose around exactly one well-formed JSON
\* object, analyze_skill_gaps and create_updated_syllabus return the value
\* parsed from the substring that runs from the first opening brace to the
\* last closing brace.
C9_MatcherRecoversBraceSpan ==
    (/\ stage \in {"analyze_skill_gaps", "create_updated_syllabus"}
     /\ HasContent
     /\ IsProseWithObject(response.content))
        => /\ returned = json_loads(BraceSpan(response.content)).val
           /\ ~raised

\* prose before and after an object that holds a nested object
C9_Witness ==
    /\ stage \in {"analyze_skill_gaps", "create_updated_syllabus"}
    /\ HasContent
    /\ IsProseWithObject(response.content)
    /\ Head(response.content) = "w"
    /\ response.content[Len(response.content)] = "w"
    /\ returned = json_loads(BraceSpan(response.content)).val
    /\ \E i \in 1..Len(returned.items) : returned.items[i].v.t \in {"dict", "list"}
    /\ returned # current_syllabus

\* C10 as stated: for every reply that is an opening fence line, a
\* well-formed JSON object and a closing fence line, each of the three
\* stages returns the value parsed from the inner object.
C10_FencedReplyDecoded ==
    (HasContent /\ IsFenced(response.content))
        => LET inner == json_loads(FenceInner(response.content)).val IN
           /\ stage \in {"analyze_skill_gaps", "create_updated_syllabus"}
                 => returned = inner
           /\ stage = "extract_skills_from_jobs" => SameTaxonomy(returned, inner)

\* C10 as amended: the gap analyzer and the synthesizer return the value
\* parsed from the inner object; the extractor returns the inner object
\* (each category sorted) when every value of it is a mapping with
\* mutually comparable frequencies, and its four empty categories when not.
C10_FencedReplyDecodedAmended ==
    (HasContent /\ IsFenced(response.content))
        => LET inner == json_loads(FenceInner(response.content)).val IN
           /\ stage \in {"analyze_skill_gaps", "create_updated_syllabus"}
                 => returned = inner
           /\ (stage = "extract_skills_from_jobs" /\ IsTaxonomy(inner))
                 => SameTaxonomy(returned, inner)
           /\ (stage = "extract_skills_from_jobs" /\ ~IsTaxonomy(inner))
                 => returned = FourEmptyCategories

\* a reply fenced with the json tag whose inner taxonomy names a skill
C10_Witness ==
    /\ stage = "extract_skills_from_jobs"
    /\ HasContent
    /\ IsFenced(response.content)
    /\ strip(response.content)[2] = "json"
    /\ IsTaxonomy(json_loads(FenceInner(response.content)).val)
    /\ returned # FourEmptyCategories
    /\ SameTaxonomy(returned, json_loads(FenceInner(response.content)).val)

\* C11: for every reply that is well-formed JSON as a whole,
\* analyze_skill_gaps and create_updated_syllabus return exactly the parsed
\* reply: nothing is added, removed, reordered or altered on the client.
C11_DirectParseReturnedVerbatim ==
    (stage \in {"analyze_skill_gaps", "create_updated_syllabus"} /\ HasContent)
        => LET direct == json_loads(response.content)
           IN  direct.ok => (returned = direct.val /\ ~raised)

\* the gap analyzer hands back a report with its missing_skills entry
C11_Witness ==
    /\ stage = "analyze_skill_gaps"
    /\ HasContent
    /\ json_loads(response.content).ok
    /\ IsDict(returned)
    /\ "missing_skills" \in KeySet(returned)
    /\ Get(returned, "missing_skills") =
          PyList(<<PyDict(<<KV("skill", PyStr("React"))>>)>>)

\* the entries of a category are in non-increasing order
NonIncreasing(kvs) ==
    \A i \in 1..(Len(kvs) - 1) :
        /\ kvs[i].v.t = kvs[i + 1].v.t
        /\ kvs[i].v.t = "int" => kvs[i].v.n >= kvs[i + 1].v.n

\* C12: the taxonomy returned by extract_skills_from_jobs is either the
\* whole parsed reply with every category sorted or exactly the four empty
\* categories; when the loop fails part-way, no category processed before
\* the failure shows in the result.
C12_WholeReplyOrDefault ==
    stage = "extract_skills_from_jobs"
        => \/ returned = FourEmptyCategories
           \/ /\ HasContent
              /\ LET parsed == ParsedReply
                 IN  /\ parsed.ok /\ IsTaxonomy(parsed.val)
                     /\ SameTaxonomy(returned, parsed.val)
                     /\ Keys(returned) = Keys(parsed.val)
              /\ \A i \in 1..Len(returned.items) :
                    NonIncreasing(returned.items[i].v.items)

\* the first category of the reply names a skill, a later value is not a
\* mapping, and the default is returned
C12_Witness ==
    /\ stage = "extract_skills_from_jobs"
    /\ HasContent /\ ParsedReply.ok /\ IsDict(ParsedReply.val)
    /\ Len(ParsedReply.val.items) >= 2
    /\ IsDict(ParsedReply.val.items[1].v)
    /\ Len(ParsedReply.val.items[1].v.items) >= 2
    /\ Sortable(ParsedReply.val.items[1].v.items)
    /\ \E i \in 2..Len(ParsedReply.val.items) : ~IsDict(ParsedReply.val.items[i].v)
    /\ returned = FourEmptyCategories

\* C19: in every taxonomy returned by extract_skills_from_jobs every
\* frequency is a non-negative integer.
C19_FrequenciesNonNegative ==
    stage = "extract_skills_from_jobs"
        => \A c \in 1..Len(returned.items) :
              \A i \in 1..Len(returned.items[c].v.items) :
                  /\ returned.items[c].v.items[i].v.t = "int"
                  /\ returned.items[c].v.items[i].v.n >= 0

C13_LoadReturnsLastSave ==
    loaded.op = "load_skills"
        => /\ ~loaded.raised
           /\ loaded.val = (IF saved[loaded.name].ever THEN saved[loaded.name].val
                                                       ELSE PyDict(<<>>))

\* a second, different taxonomy was saved over a name and then loaded while
\* the other name, never saved, stays absent
C13_Witness ==
    /\ loaded.op = "load_skills"
    /\ saved[loaded.name].ever
    /\ loaded.val = saved[loaded.name].val
    /\ loaded.val # PyDict(<<>>)
    /\ Len(files[loaded.name].text) > Len(json_dump(EmptySkills, 0))
    /\ \E n \in StoreNames : ~files[n].exists

\* C18: once extract_skills_from_jobs, analyze_skill_gaps or
\* create_updated_syllabus has returned, by a decoded reply or by its
\* fallback, the posting list, the curriculum, the taxonomy and the gap
\* report are what the caller passed.
C18_ArgumentsUnchanged ==
    (stage # "idle" /\ ~raised)
        => /\ jobs = passed.jobs
           /\ current_syllabus = passed.current_syllabus
           /\ industry_skills = passed.industry_skills
           /\ gap_analysis = passed.gap_analysis

\* the synthesizer decoded a curriculum that differs from the one passed
\* and returned it, and the curriculum passed is as it was
C18_Witness ==
    /\ stage = "create_updated_syllabus"
    /\ HasContent
    /\ IsDict(returned)
    /\ returned # passed.current_syllabus
    /\ passed.current_syllabus # PyDict(<<>>)
    /\ current_syllabus = passed.current_syllabus

\* a step of the run that invokes the stage
Invokes(name) == stage' = name /\ stage # name

\* C14: in main() and in the session, analyze_skill_gaps is invoked only
\* with the taxonomy extract_skills_from_jobs returned last, and
\* create_updated_syllabus only right after analyze_skill_gaps has returned,
\* with the report it returned and the curriculum it was given.
C14_StageGating ==
    [][/\ Invokes("analyze_skill_gaps")
            => /\ hist.built # Unbound
               /\ passed'.industry_skills = hist.built
       /\ Invokes("create_updated_syllabus")
            => /\ stage = "analyze_skill_gaps"
               /\ ~raised
               /\ passed'.gap_analysis = returned
               /\ passed'.current_syllabus = passed.current_syllabus]_vars

\* the session has run the three stages in a row on a taxonomy of two
\* skills and an uploaded syllabus
C14_Witness ==
    /\ mode = "ui"
    /\ stage = "create_updated_syllabus"
    /\ hist.built = session.skills
    /\ Len(session.skills.items) = 4
    /\ Len(session.skills.items[1].v.items) = 2
    /\ passed.gap_analysis = session.gap_analysis
    /\ passed.gap_analysis = RunReport
    /\ passed.current_syllabus = FileSyllabus
    /\ returned = RunSyllabus

\* C15: when Extract Skills is run again in a session that holds a gap
\* report and a revised curriculum, these are no longer shown as results
\* nor accepted by the report page.
C15_RerunInvalidatesDownstream ==
    [][(/\ mode = "ui"
        /\ Invokes("extract_skills_from_jobs")
        /\ ResultsDisplayed(session))
            => /\ ~ResultsDisplayed(session')
               /\ ~ReportGate(session')]_vars

\* no curriculum is available to the run: no syllabus file for main(), no
\* syllabus and no uploaded PDF in the session
NoCurriculum ==
    \/ mode = "cli" /\ ~files["current_syllabus.json"].exists
    \/ mode = "ui" /\ session.current_syllabus = Unbound /\ ~session.pdf_uploaded

\* C16: while no curriculum is available, no stage of the run has issued a
\* completion call, and main() does not run to its end.
C16_NoCallWithoutCurriculum ==
    NoCurriculum => /\ ~(stage # "idle" /\ calls > 0)
                    /\ pc # "done"

\* the posting list of the run
Postings == IF mode = "cli" THEN main.jobs ELSE session.jobs

\* the files the three stages are saved to
Artifacts == {"extracted_skills.json", "gap_analysis.json", "updated_syllabus.json"}

\* C17, as claimed: in main() and in the session, a step taken with an
\* empty posting list invokes none of the three stages and writes none of
\* their artifacts.
C17_EmptyPostingsNoStage ==
    [][~Truthy(Postings')
        => /\ UNCHANGED stageVars
           /\ \A n \in Artifacts : files'[n] = files[n]]_vars

\* C17, amended: with an empty posting list extract_skills_from_jobs is not
\* invoked and extracted_skills.json is not written, in main() and in the
\* session; in main() no stage at all is invoked and no artifact written.
C17_EmptyPostingsNoExtraction ==
    [][~Truthy(Postings')
        => /\ stage' = "extract_skills_from_jobs" => UNCHANGED stageVars
           /\ files'["extracted_skills.json"] = files["extracted_skills.json"]
           /\ mode = "cli"
                => /\ UNCHANGED stageVars
                   /\ \A n \in Artifacts : files'[n] = files[n]]_vars

\* main() found no posting in jobs.json and returned: no stage was invoked,
\* no artifact exists
C17_Witness ==
    /\ mode = "cli"
    /\ pc = "aborted"
    /\ main.jobs = PyList(<<>>)
    /\ files["jobs.json"].exists
    /\ env
    /\ stage = "idle"
    /\ \A n \in Artifacts : ~files[n].exists

\* C21: analyze_skill_gaps returns without raising for every curriculum,
\* every taxonomy extract_skills_from_jobs returns and every outcome of its
\* own completion call; the rendering of the taxonomy does not raise.
C21_AnalyzeNeverRaises ==
    stage = "analyze_skill_gaps"
        => /\ ~raised
           /\ ~RenderRaises(passed.industry_skills)

\* a taxonomy with a category of two skills and a frequency that is no
\* number in another was rendered, the call failed and the error report
\* came back
C21_Witness ==
    /\ stage = "analyze_skill_gaps"
    /\ \E i \in 1..Len(passed.industry_skills.items) :
          Len(passed.industry_skills.items[i].v.items) = 2
    /\ \E i \in 1..Len(passed.industry_skills.items) :
          \E j \in 1..Len(passed.industry_skills.items[i].v.items) :
              passed.industry_skills.items[i].v.items[j].v.t # "int"
    /\ response.kind = "raise"
    /\ returned = ErrorReport("exception")
    /\ ~raised

\* the run holds the four empty categories the extractor falls back to
HoldsEmptyDefault ==
    /\ hist.built = EmptySkills
    /\ IF mode = "cli" THEN main.aggregated_skills = EmptySkills
                       ELSE session.skills = EmptySkills

\* C22: once extract_skills_from_jobs has fallen back to the four empty
\* categories, main() does not stop (it neither returns early nor ends in
\* an exception, the rendering of the taxonomy included), and in the
\* session the gate of the matching page lets Analyze & Match through.
C22_EmptyTaxonomyContinues ==
    HoldsEmptyDefault
        => /\ mode = "cli"
                => /\ pc \in {"extracted", "analyzed", "revised", "done"}
                   /\ ~RenderRaises(main.aggregated_skills)
           /\ (mode = "ui" /\ env)
                => /\ MatchingGate(session, env)
                   /\ ~RenderRaises(session.skills)

\* the session went from the four empty categories through Analyze & Match
\* to a revised syllabus
C22_Witness ==
    /\ mode = "ui"
    /\ HoldsEmptyDefault
    /\ stage = "create_updated_syllabus"
    /\ passed.gap_analysis = RunReport
    /\ session.updated_syllabus = RunSyllabus

\* the four category names
CategorySet == {Categories[i] : i \in 1..4}

\* the decoded reply holds the four categories, each a mapping the sort
\* accepts, and at least one more key
FourCategoriesAndMore(v) ==
    /\ IsDict(v)
    /\ CategorySet \subseteq KeySet(v)
    /\ KeySet(v) # CategorySet
    /\ IsTaxonomy(PyDict(SelectSeq(v.items, LAMBDA kv : kv.k \in CategorySet)))

\* C23: a reply that decodes to the four categories plus an extra key, be
\* its value a mapping or a scalar, is returned with the entries of the four
\* categories and with the extra key, not replaced by the empty default.
C23_UnknownKeysPassThrough ==
    (/\ stage = "extract_skills_from_jobs"
     /\ HasContent
     /\ ParsedReply.ok
     /\ FourCategoriesAndMore(ParsedReply.val))
        => /\ IsDict(returned)
           /\ KeySet(returned) = KeySet(ParsedReply.val)
           /\ \A c \in CategorySet :
                 Pairs(Get(returned, c)) = Pairs(Get(ParsedReply.val, c))
           /\ \A key \in KeySet(ParsedReply.val) \ CategorySet :
                 \/ Get(returned, key) = Get(ParsedReply.val, key)
                 \/ /\ IsDict(Get(ParsedReply.val, key))
                    /\ IsDict(Get(returned, key))
                    /\ Pairs(Get(returned, key)) = Pairs(Get(ParsedReply.val, key))

\* C24: for a posting list of length n the prompt of extract_skills_from_jobs
\* holds exactly the first min(n, 20) postings in input order, numbered from
\* 1, each with its title, its company and at most the first 200 characters
\* of its description; the postings after the 20th leave no trace in it.
C24_PromptHoldsFirstTwentyPostings ==
    stage = "extract_skills_from_jobs"
        => LET js == passed.jobs.items
               m == IF Len(js) < 20 THEN Len(js) ELSE 20
               field(job, key, default) ==
                   IF \E i \in 1..Len(job.items) : job.items[i].k = key
                   THEN Get(job, key) ELSE default
           IN  /\ prompt.count = m
               /\ Len(prompt.batch_text) = m
               /\ \A k \in 1..m :
                    LET line == prompt.batch_text[k]
                        whole == field(js[k], "description", PyText("", 0))
                    IN  /\ line.idx = k
                        /\ line.title = field(js[k], "title", PyStr("Unknown"))
                        /\ line.company = field(js[k], "company", PyStr("Unknown"))
                        /\ line.description.s = whole.s
                        /\ line.description.n <= 200
                        /\ line.description.n =
                             IF whole.n < 200 THEN whole.n ELSE 200
               /\ prompt = ExtractPrompt(PyList(SubSeq(js, 1, m)))

\* a list of 22 postings with descriptions of 201 characters was put into a
\* prompt of 20 lines
C24_Witness ==
    /\ stage = "extract_skills_from_jobs"
    /\ Len(passed.jobs.items) = 22
    /\ Get(passed.jobs.items[22], "description").n = 201
    /\ prompt.count = 20
    /\ prompt.batch_text[20].description.n = 200

\* C25: for every taxonomy the prompt of analyze_skill_gaps lists, category by
\* category, exactly the first min(15, size) entries of the category in the
\* order the taxonomy holds them, each with its frequency (the 15 most
\* frequent ones when the category is sorted); no later entry appears.
C25_PromptHoldsFirstFifteenSkills ==
    (stage = "analyze_skill_gaps" /\ ~raised)
        => LET cats == passed.industry_skills.items
           IN  /\ Len(prompt.skills_text) = Len(cats)
               /\ \A i \in 1..Len(cats) :
                    LET entries == cats[i].v.items
                        lines == prompt.skills_text[i].lines
                        m == IF Len(entries) < 15 THEN Len(entries) ELSE 15
                        falling == \A a, b \in 1..Len(entries) :
                                     a < b => entries[a].v.n >= entries[b].v.n
                    IN  /\ prompt.skills_text[i].category = cats[i].k
                        /\ Len(lines) = m
                        /\ \A j \in 1..m : /\ lines[j].k = entries[j].k
                                           /\ lines[j].v = entries[j].v
                        /\ falling => \A j \in 1..m, l \in (m + 1)..Len(entries) :
                                        lines[j].v.n >= entries[l].v.n

\* a category of 17 entries with falling counts went into the prompt as its
\* first 15 entries
C25_Witness ==
    /\ stage = "analyze_skill_gaps"
    /\ ~raised
    /\ Len(passed.industry_skills.items[1].v.items) = 17
    /\ passed.industry_skills.items[1].v.items[1].v.n = 16
    /\ Len(prompt.skills_text[1].lines) = 15
    /\ prompt.skills_text[1].lines[15].k = "15"
    /\ Len(prompt.skills_text[4].lines) = 15

\* C26: while the GROQ_API_KEY credential is absent no stage is invoked and
\* no completion call is issued, in the UI session by the gates of the
\* pages and in main() because the constructor of SkillsExtractor raises
\* before a client exists, which ends the run.
C26_NoStageWithoutCredential ==
    [][~env => /\ stage = "idle"
               /\ stage' = "idle"
               /\ calls' = 0
               /\ response' = NoResponse
               /\ (mode = "cli" /\ pc = "jobs_loaded") => pc' = "crashed"]_vars

\* the session holds postings, the key is absent and no stage has run
C26_Witness ==
    /\ mode = "ui"
    /\ ~env
    /\ Truthy(session.jobs)
    /\ stage = "idle"
    /\ calls = 0

\* C27: in the UI session, whenever a PDF syllabus has been uploaded and
\* Analyze & Match then invokes the Gap Analyzer, the curriculum passed is
\* the one converted from that PDF, whatever was done before (the default
\* syllabus loaded, a JSON syllabus uploaded).
C27_UploadedPdfIsAnalysed ==
    [][(mode = "ui" /\ session.pdf_uploaded /\ Invokes("analyze_skill_gaps"))
          => /\ passed'.current_syllabus
                   \in {c.val : c \in {o \in ConvertOutcomes : ~o.raised}}
             /\ passed'.current_syllabus # create_default_syllabus]_vars

\* every value of the object is a mapping from skills to integer counts
IsFrequencyTaxonomy(v) ==
    /\ IsDict(v)
    /\ \A i \in 1..Len(v.items) :
          /\ IsDict(v.items[i].v)
          /\ \A j \in 1..Len(v.items[i].v.items) : v.items[i].v.items[j].v.t = "int"

\* C28: for every reply that decodes to a mapping of categories to
\* skill -> frequency mappings, the taxonomy returned has the same category
\* keys, and each category holds exactly the (skill, frequency) pairs of the
\* decoded reply: none dropped, none duplicated, none changed.
C28_SortingOnlyReorders ==
    (stage = "extract_skills_from_jobs" /\ HasContent)
        => LET parsed == ParsedReply
           IN  (parsed.ok /\ IsFrequencyTaxonomy(parsed.val))
                  => /\ IsDict(returned)
                     /\ Len(returned.items) = Len(parsed.val.items)
                     /\ \A c \in 1..Len(parsed.val.items) :
                          LET key == parsed.val.items[c].k
                              was == parsed.val.items[c].v.items
                          IN  /\ \E d \in 1..Len(returned.items) :
                                    returned.items[d].k = key
                              /\ LET now == Get(returned, key).items
                                 IN  /\ Len(now) = Len(was)
                                     /\ {now[j] : j \in 1..Len(now)}
                                            = {was[j] : j \in 1..Len(was)}
                                     /\ \A i, j \in 1..Len(now) :
                                            now[i].k = now[j].k => i = j

\* a category the reply listed as two skills with rising counts was
\* returned as the same two skills the other way round
C28_Witness ==
    /\ stage = "extract_skills_from_jobs"
    /\ HasContent
    /\ ParsedReply.ok
    /\ IsFrequencyTaxonomy(ParsedReply.val)
    /\ Len(returned.items) = 4
    /\ LET was == ParsedReply.val.items[1].v.items
           now == returned.items[1].v.items
       IN  /\ Len(was) = 2
           /\ now = <<was[2], was[1]>>
           /\ now[1].v.n > now[2].v.n

\* C29: for every reply (well-formed JSON that is no object included: null,
\* a string, a list) the value create_updated_syllabus returns is a mapping,
\* either the curriculum it was given or a JSON object decoded from the
\* reply.
C29_SynthReturnsCurriculum ==
    stage = "create_updated_syllabus"
        => /\ IsDict(returned)
           /\ \/ returned = passed.current_syllabus
              \/ /\ HasContent
                 /\ \/ /\ json_loads(response.content).ok
                       /\ returned = json_loads(response.content).val
                    \/ /\ json_loads(BraceSpan(response.content)).ok
                       /\ returned = json_loads(BraceSpan(response.content)).val

====
